---- MODULE Spec2Model ----
(***************************************************************************)
(* Model of scripts/blender_storyline_icons.py: a script that drives a     *)
(* host scene graph (bpy) with a fixed sequence of host calls per icon.    *)
(* The script's functions are modelled as instruction sequences, one       *)
(* instruction per host call or Python statement, and the host as one      *)
(* action per kind of host call.  Decimal literals of the script are kept  *)
(* as strings; the id 0 is None.                                           *)
(***************************************************************************)
EXTENDS Integers, Sequences, FiniteSets, TLC

VARIABLES
  objects,       \* bpy.data.objects: the scene's objects (records)
  materials,     \* bpy.data.materials
  world,         \* bpy.context.scene.world's node tree
  scene_camera,  \* bpy.context.scene.camera (object id, 0 for None)
  active,        \* bpy.context.active_object (object id, 0 for None)
  mode,          \* the host's interaction mode, "OBJECT" or "EDIT"
  select_mode,   \* the mesh select mode of the tool settings
  render,        \* bpy.context.scene.render
  files,         \* the image files on disk
  writes,        \* the renders written so far, in order
  mark,          \* Len(writes) when the running console call started
  prog,          \* the statements of the running console call
  pc,            \* index in prog of the next statement
  status,        \* "idle", "running" or "failed"
  cause,         \* why the call failed: "none", "raised" or "fault"
  calls,         \* console calls made
  locals,        \* the Python variables of the running builder
  nextId,        \* next fresh id of a host data-block
  entry          \* the builder last entered and the ids alive at its entry

vars == <<objects, materials, world, scene_camera, active, mode, select_mode,
          render, files, writes, mark, prog, pc, status, cause, calls, locals,
          nextId, entry>>

\* number of console invocations explored
MaxCalls == 2

\* ------------------------------------------------------------------------
\* Script text
\* ------------------------------------------------------------------------

I(op, var, arg) == [op |-> op, var |-> var, arg |-> arg]

COLORS ==
  [soft_plum   |-> <<"0.533", "0.329", "0.816", "1.0">>,
   warm_ochre  |-> <<"0.894", "0.702", "0.388", "1.0">>,
   gentle_sage |-> <<"0.659", "0.753", "0.565", "1.0">>,
   ink_black   |-> <<"0.106", "0.110", "0.118", "1.0">>,
   soft_white  |-> <<"0.98", "0.98", "0.98", "1.0">>]

clear_scene_KeepObjects ==
  << I("object.select_all", "", "SELECT") >>

clear_scene ==
  << I("object.select_all", "", "SELECT"),
     I("object.delete", "", "") >>

\* mat = create_material(name, color, metallic, roughness, emission); the
\* returned material is bound to the caller's variable `var`
create_material(var, name, color, metallic, roughness, emission) ==
  << I("materials.new", var, name),
     I("mat.use_nodes", var, TRUE),
     I("mat.nodes.clear", var, ""),
     I("mat.nodes.new", var, "ShaderNodeBsdfPrincipled"),
     I("mat.input", var, <<"Base Color", color>>),
     I("mat.input", var, <<"Metallic", metallic>>),
     I("mat.input", var, <<"Roughness", roughness>>),
     I("mat.input", var, <<"Emission Strength", emission>>),
     I("mat.nodes.new", var, "ShaderNodeOutputMaterial"),
     I("mat.links.new", var, <<"BSDF", "Surface">>) >>

setup_lighting_DefaultFill ==
  << I("world.use_nodes", "", TRUE),
     I("world.nodes.clear", "", ""),
     I("world.nodes.new", "", "ShaderNodeTexEnvironment"),
     I("world.nodes.new", "", "ShaderNodeBackground"),
     I("world.nodes.new", "", "ShaderNodeOutputWorld"),
     I("world.input", "", <<"Color", <<"0.1", "0.08", "0.12", "1.0">> >>),
     I("world.input", "", <<"Strength", "0.3">>),
     I("world.links.new", "", <<"Background", "Surface">>),
     I("light_add", "", <<"SUN", <<"5", "5", "10">> >>),
     I("bind_active", "key_light", ""),
     I("setattr", "key_light", <<"energy", 3>>),
     I("setattr", "key_light", <<"color", <<"1.0", "0.95", "0.9">> >>),
     I("light_add", "", <<"AREA", <<"-3", "2", "5">> >>),
     I("bind_active", "fill_light", ""),
     I("setattr", "key_light", <<"energy", 1>>),
     I("setattr", "fill_light", <<"color", SubSeq(COLORS.warm_ochre, 1, 3)>>) >>

setup_lighting ==
  << I("world.use_nodes", "", TRUE),
     I("world.nodes.clear", "", ""),
     I("world.nodes.new", "", "ShaderNodeTexEnvironment"),
     I("world.nodes.new", "", "ShaderNodeBackground"),
     I("world.nodes.new", "", "ShaderNodeOutputWorld"),
     I("world.input", "", <<"Color", <<"0.1", "0.08", "0.12", "1.0">> >>),
     I("world.input", "", <<"Strength", "0.3">>),
     I("world.links.new", "", <<"Background", "Surface">>),
     I("light_add", "", <<"SUN", <<"5", "5", "10">> >>),
     I("bind_active", "key_light", ""),
     I("setattr", "key_light", <<"energy", 3>>),
     I("setattr", "key_light", <<"color", <<"1.0", "0.95", "0.9">> >>),
     I("light_add", "", <<"AREA", <<"-3", "2", "5">> >>),
     I("bind_active", "fill_light", ""),
     I("setattr", "fill_light", <<"energy", 1>>),
     I("setattr", "fill_light", <<"color", SubSeq(COLORS.warm_ochre, 1, 3)>>) >>

setup_icon_camera_NotActivated ==
  << I("remove_default_camera", "", "Camera"),
     I("camera_add", "", <<"4", "-4", "3">>),
     I("bind_active", "camera", ""),
     I("setattr", "camera", <<"name", "Icon_Camera">>),
     I("setattr", "camera", <<"rotation_euler", <<"1.1", "0", "0.785">> >>) >>

setup_icon_camera ==
  << I("remove_default_camera", "", "Camera"),
     I("camera_add", "", <<"4", "-4", "3">>),
     I("bind_active", "camera", ""),
     I("setattr", "camera", <<"name", "Icon_Camera">>),
     I("setattr", "camera", <<"rotation_euler", <<"1.1", "0", "0.785">> >>),
     I("scene.camera", "camera", "") >>

Primitive_NoRename(kind, geom, loc, var, name) ==
  << I("primitive_add", "", <<kind, geom, loc>>),
     I("bind_active", var, "") >>

\* bpy.ops.mesh.primitive_*_add(...); v = bpy.context.active_object;
\* v.name = name
Primitive(kind, geom, loc, var, name) ==
  << I("primitive_add", "", <<kind, geom, loc>>),
     I("bind_active", var, ""),
     I("setattr", var, <<"name", name>>) >>

create_microphone_icon ==
  << I("call", "create_microphone_icon", "") >>
  \o clear_scene
  \o create_material("body_mat", "Microphone_Body", COLORS.soft_plum, "0.3", "0.2", "0.0")
  \o create_material("grille_mat", "Microphone_Grille", COLORS.ink_black, "0.8", "0.1", "0.0")
  \o create_material("stand_mat", "Microphone_Stand", COLORS.ink_black, "0.5", "0.3", "0.0")
  \o Primitive("cylinder", "radius=0.4, depth=1.2", <<"0", "0", "1">>,
               "capsule", "Microphone_Capsule")
  \o << I("shade_smooth", "", ""),
        I("materials.append", "capsule", "body_mat") >>
  \o Primitive("cylinder", "radius=0.41, depth=0.8", <<"0", "0", "1.2">>,
               "grille", "Microphone_Grille")
  \o << I("materials.append", "grille", "grille_mat") >>
  \o Primitive("cylinder", "radius=0.6, depth=0.1", <<"0", "0", "0">>,
               "base", "Microphone_Base")
  \o << I("materials.append", "base", "stand_mat") >>
  \o Primitive("cylinder", "radius=0.05, depth=1", <<"0", "0", "0.5">>,
               "arm", "Microphone_Arm")
  \o << I("materials.append", "arm", "stand_mat") >>
  \o setup_icon_camera
  \o setup_lighting
  \o << I("print", "", "Microphone icon created!"),
        I("return", "create_microphone_icon", "") >>

\* one iteration of the loop of lines 147-151; the name is f"AI_Dot_{i+1}"
AIDot(i, x_pos) ==
  Primitive("ico_sphere", "radius=0.12", <<x_pos, "0", "0.6">>,
            "dot", <<"AI_Dot_1", "AI_Dot_2", "AI_Dot_3">>[i + 1])
  \o << I("materials.append", "dot", "dot_mat") >>

create_conversation_bubble ==
  << I("call", "create_conversation_bubble", "") >>
  \o clear_scene
  \o create_material("bubble_mat", "Bubble", COLORS.soft_plum, "0.1", "0.1", "0.1")
  \o create_material("dot_mat", "Dots", COLORS.soft_white, "0.1", "0.3", "0.3")
  \o Primitive("cube", "size=2", <<"0", "0", "0.5">>,
               "bubble", "Conversation_Bubble")
  \o << I("modifier_add", "", "SUBSURF"),
        I("modifier.levels", "bubble", <<"Subdivision Surface", 2>>),
        I("shade_smooth", "", ""),
        I("materials.append", "bubble", "bubble_mat") >>
  \o Primitive("ico_sphere", "radius=0.3", <<"-0.8", "-0.8", "-0.2">>,
               "tail", "Bubble_Tail")
  \o << I("materials.append", "tail", "bubble_mat") >>
  \o AIDot(0, "-0.4") \o AIDot(1, "0") \o AIDot(2, "0.4")
  \o setup_icon_camera
  \o setup_lighting
  \o << I("print", "", "Conversation bubble icon created!"),
        I("return", "create_conversation_bubble", "") >>

create_book_icon ==
  << I("call", "create_book_icon", "") >>
  \o clear_scene
  \o create_material("cover_mat", "Book_Cover", COLORS.soft_plum, "0.1", "0.4", "0.0")
  \o create_material("pages_mat", "Book_Pages", COLORS.soft_white, "0.1", "0.8", "0.0")
  \o create_material("bookmark_mat", "Bookmark", COLORS.warm_ochre, "0.1", "0.2", "0.0")
  \o Primitive("cube", "size=2", <<"0", "0", "0">>, "book", "Book_Cover")
  \o << I("setattr", "book", <<"scale", <<"1.2", "0.1", "1.6">> >>),
        I("materials.append", "book", "cover_mat") >>
  \o Primitive("cube", "size=2", <<"0", "0.05", "0">>, "pages", "Book_Pages")
  \o << I("setattr", "pages", <<"scale", <<"1.1", "0.08", "1.5">> >>),
        I("materials.append", "pages", "pages_mat") >>
  \o Primitive("cube", "size=2", <<"0.5", "0", "0.8">>, "bookmark", "Bookmark")
  \o << I("setattr", "bookmark", <<"scale", <<"0.1", "0.12", "0.8">> >>),
        I("materials.append", "bookmark", "bookmark_mat") >>
  \o setup_icon_camera
  \o setup_lighting
  \o << I("print", "", "Book icon created!"),
        I("return", "create_book_icon", "") >>

\* lines 206-215 of create_shield_icon: the edit-mode excursion
ShieldEdit_StayInEdit ==
  << I("set_active", "shield", ""),
     I("mode_set", "", "EDIT"),
     I("mesh.select_all", "", "DESELECT"),
     I("mesh.select_mode", "", "VERT") >>

ShieldEdit ==
  << I("set_active", "shield", ""),
     I("mode_set", "", "EDIT"),
     I("mesh.select_all", "", "DESELECT"),
     I("mesh.select_mode", "", "VERT"),
     I("mode_set", "", "OBJECT") >>

create_shield_icon ==
  << I("call", "create_shield_icon", "") >>
  \o clear_scene
  \o create_material("shield_mat", "Shield", COLORS.warm_ochre, "0.2", "0.3", "0.05")
  \o create_material("heart_mat", "Heart", COLORS.soft_plum, "0.1", "0.3", "0.1")
  \o Primitive("cylinder", "radius=1, depth=0.2", <<"0", "0", "0">>,
               "shield", "Safety_Shield")
  \o ShieldEdit
  \o << I("materials.append", "shield", "shield_mat"),
        I("shade_smooth", "", "") >>
  \o Primitive("ico_sphere", "radius=0.3", <<"0", "0.15", "0.2">>,
               "heart1", "Heart_Left")
  \o << I("setattr", "heart1", <<"location", <<"-0.15", "0.15", "0.2">> >>),
        I("materials.append", "heart1", "heart_mat") >>
  \o Primitive("ico_sphere", "radius=0.3", <<"0.15", "0.15", "0.2">>,
               "heart2", "Heart_Right")
  \o << I("materials.append", "heart2", "heart_mat") >>
  \o Primitive("cone", "radius1=0.2, depth=0.4", <<"0", "0.1", "-0.1">>,
               "heart_point", "Heart_Point")
  \o << I("setattr", "heart_point", <<"rotation_euler[0]", "radians(180)">>),
        I("materials.append", "heart_point", "heart_mat") >>
  \o setup_icon_camera
  \o setup_lighting
  \o << I("print", "", "Shield icon created!"),
        I("return", "create_shield_icon", "") >>
\* ------------------------------------------------------------------------
\* render_icon and the orchestrator
\* ------------------------------------------------------------------------

\* str(n) of a non-negative int, as a sequence of characters
RECURSIVE Str(_)
Str(n) ==
  LET d == <<"0", "1", "2", "3", "4", "5", "6", "7", "8", "9">>[(n % 10) + 1]
  IN  IF n < 10 THEN <<d>> ELSE Str(n \div 10) \o <<d>>

\* the directory literal of line 269, kept as one token
ICON_DIR == <<"/Users/jamesfarmer/Application Prototype/Storyline/assets/icons/">>

RenderPath_NoSeparator(name, size) ==
  ICON_DIR \o name \o Str(size) \o <<".", "p", "n", "g">>

\* f".../icons/{name}_{size}.png"; name is a sequence of characters
RenderPath(name, size) ==
  ICON_DIR \o name \o <<"_">> \o Str(size) \o <<".", "p", "n", "g">>

render_icon_OneAxis(name, size) ==
  << I("call", "render_icon", <<name, size>>),
     I("render.set", "", <<"resolution_x", size>>),
     I("render.set", "", <<"film_transparent", TRUE>>),
     I("render.set", "", <<"filepath", RenderPath(name, size)>>),
     I("render.render", "", <<name, size>>),
     I("print", "", "Rendered icon"),
     I("return", "render_icon", <<name, size>>) >>

render_icon(name, size) ==
  << I("call", "render_icon", <<name, size>>),
     I("render.set", "", <<"resolution_x", size>>),
     I("render.set", "", <<"resolution_y", size>>),
     I("render.set", "", <<"film_transparent", TRUE>>),
     I("render.set", "", <<"filepath", RenderPath(name, size)>>),
     I("render.render", "", <<name, size>>),
     I("print", "", "Rendered icon"),
     I("return", "render_icon", <<name, size>>) >>

N_microphone == <<"m", "i", "c", "r", "o", "p", "h", "o", "n", "e">>
N_conversation_bubble ==
  <<"c", "o", "n", "v", "e", "r", "s", "a", "t", "i", "o", "n", "_",
    "b", "u", "b", "b", "l", "e">>
N_book == <<"b", "o", "o", "k">>
N_shield == <<"s", "h", "i", "e", "l", "d">>

create_all_storyline_icons ==
  << I("call", "create_all_storyline_icons", ""),
     I("print", "", "Creating Storyline icons...") >>
  \o create_microphone_icon \o render_icon(N_microphone, 1024)
  \o create_conversation_bubble \o render_icon(N_conversation_bubble, 1024)
  \o create_book_icon \o render_icon(N_book, 1024)
  \o create_shield_icon \o render_icon(N_shield, 1024)
  \o << I("print", "", "All Storyline icons created!"),
        I("return", "create_all_storyline_icons", "") >>

\* no try/except anywhere in the script: an exception raised by statement k
\* unwinds every frame, so the call stops there
OnFailure_Swallow(k) ==
  [status |-> IF k + 1 > Len(prog) THEN "idle" ELSE "running", pc |-> k + 1]

OnFailure(k) == [status |-> "failed", pc |-> k]
\* ------------------------------------------------------------------------
\* Host state
\* ------------------------------------------------------------------------

Builders == {"create_microphone_icon", "create_conversation_bubble",
             "create_book_icon", "create_shield_icon"}

\* a data-block name: the base and the host's numeric suffix (0 for none,
\* n for ".00n")
Name(base) == [base |-> base, n |-> 0]

\* the name the host gives a data-block asked to be called `base` when the
\* names `used` are taken: the base, else the first free numeric suffix
UniqueName(base, used) ==
  IF Name(base) \notin used THEN Name(base)
  ELSE [base |-> base,
        n |-> CHOOSE k \in 1..(Cardinality(used) + 1) :
                /\ [base |-> base, n |-> k] \notin used
                /\ \A j \in 1..(k - 1) : [base |-> base, n |-> j] \in used]

NewObject(id, name, type, kind, geom, loc, energy) ==
  [id |-> id, name |-> name, type |-> type, kind |-> kind, geom |-> geom,
   location |-> loc, rotation |-> <<"0", "0", "0">>,
   scale |-> <<"1", "1", "1">>, select |-> TRUE, slots |-> << >>,
   smooth |-> FALSE, vsel |-> "ALL", energy |-> energy,
   color |-> <<"1.0", "1.0", "1.0">>, modifiers |-> << >>]

NewMaterial(id, name) ==
  [id |-> id, name |-> name, use_nodes |-> FALSE, nodes |-> {}, links |-> {},
   base_color |-> <<"0.8", "0.8", "0.8", "1.0">>, metallic |-> "0.0",
   roughness |-> "0.5", emission |-> "0.0"]

DefaultNodes == {"ShaderNodeBsdfPrincipled", "ShaderNodeOutputMaterial"}

DefaultWorld ==
  [use_nodes |-> TRUE,
   nodes |-> {"ShaderNodeBackground", "ShaderNodeOutputWorld"},
   links |-> {<<"Background", "Surface">>},
   Color |-> <<"0.05", "0.05", "0.05", "1.0">>, Strength |-> "1.0"]

DefaultRender ==
  [resolution_x |-> 1920, resolution_y |-> 1080, film_transparent |-> FALSE,
   filepath |-> <<"/tmp/">>]

\* the object name the host gives a new primitive, light or camera
DefaultName(kind) ==
  CASE kind = "cylinder" -> "Cylinder"
    [] kind = "cube" -> "Cube"
    [] kind = "ico_sphere" -> "Icosphere"
    [] kind = "cone" -> "Cone"
    [] kind = "SUN" -> "Sun"
    [] kind = "AREA" -> "Area"
    [] kind = "POINT" -> "Point"
    [] OTHER -> "Camera"

DefaultEnergy(kind) ==
  CASE kind = "SUN" -> 1 [] kind = "AREA" -> 10 [] OTHER -> 1000

\* the names a host may give the modifier added by modifier_add(type=...).
\* The name is the host's, not the script's: hosts that have view_layer
\* (line 207) name a new SUBSURF modifier "Subdivision"; the second name
\* stands for a host whose name is the key the script looks up at line 135.
ModifierNames(type) ==
  IF type = "SUBSURF" THEN {"Subdivision", "Subdivision Surface"} ELSE {type}

NoLocals == [v \in {} |-> 0]

NoEntry == [fn |-> "none", objs |-> {}, mats |-> {}]

\* the host's factory scene: Cube, Light, Camera
DefaultScene ==
  /\ objects =
       { [NewObject(1, Name("Cube"), "MESH", "cube", <<"size=2">>,
                    <<"0", "0", "0">>, 0) EXCEPT !.slots = <<4>>],
         [NewObject(2, Name("Light"), "LIGHT", "POINT", << >>,
                    <<"4.08", "1.01", "5.90">>, 1000) EXCEPT !.select = FALSE],
         [NewObject(3, Name("Camera"), "CAMERA", "CAMERA", << >>,
                    <<"7.36", "-6.93", "4.96">>, 0) EXCEPT !.select = FALSE] }
  /\ materials =
       { [NewMaterial(4, Name("Material")) EXCEPT
            !.use_nodes = TRUE, !.nodes = DefaultNodes,
            !.links = {<<"BSDF", "Surface">>}] }
  /\ scene_camera = 3
  /\ active = 1
  /\ nextId = 5

\* a scene with no object and no material
EmptyScene ==
  /\ objects = {}
  /\ materials = {}
  /\ scene_camera = 0
  /\ active = 0
  /\ nextId = 1

Init ==
  /\ DefaultScene \/ EmptyScene
  /\ world = DefaultWorld
  /\ mode = "OBJECT"
  /\ select_mode = "VERT"
  /\ render = DefaultRender
  /\ files = {}
  /\ writes = << >>
  /\ mark = 0
  /\ prog = << >>
  /\ pc = 1
  /\ status = "idle"
  /\ cause = "none"
  /\ calls = 0
  /\ locals = NoLocals
  /\ entry = NoEntry

\* ------------------------------------------------------------------------
\* Stepping through the statements
\* ------------------------------------------------------------------------

ins == prog[pc]

At(o) == status = "running" /\ ins.op = o

Advance ==
  /\ pc' = pc + 1
  /\ status' = IF pc + 1 > Len(prog) THEN "idle" ELSE "running"
  /\ UNCHANGED <<cause, mark, prog, calls>>

\* the statement at pc raises: c is "raised" for an exception that follows
\* from the state, "fault" for a host call that fails on its own
Raise(c) ==
  /\ pc' = OnFailure(pc).pc
  /\ status' = OnFailure(pc).status
  /\ cause' = c
  /\ UNCHANGED <<objects, materials, world, scene_camera, active, mode,
                 select_mode, render, files, writes, mark, prog, calls,
                 locals, nextId, entry>>

Exists(id) == \E o \in objects : o.id = id

Obj(id) == CHOOSE o \in objects : o.id = id

Mat(id) == CHOOSE m \in materials : m.id = id

Bound(v) == v \in DOMAIN locals

\* the object a Python variable refers to is alive
Alive(v) == Bound(v) /\ Exists(locals[v])

MatAlive(v) == Bound(v) /\ \E m \in materials : m.id = locals[v]

SetObject(o2) == objects' = {IF o.id = o2.id THEN o2 ELSE o : o \in objects}

SetMaterial(m2) ==
  materials' = {IF m.id = m2.id THEN m2 ELSE m : m \in materials}

\* the statements that call into the host or write a host property
HostOps ==
  {"object.select_all", "object.delete", "materials.new", "mat.use_nodes",
   "mat.nodes.clear", "mat.nodes.new", "mat.input", "mat.links.new",
   "primitive_add", "setattr", "shade_smooth", "materials.append",
   "modifier_add", "modifier.levels", "set_active", "mode_set",
   "mesh.select_all", "mesh.select_mode", "remove_default_camera",
   "camera_add", "scene.camera", "world.use_nodes", "world.nodes.clear",
   "world.nodes.new", "world.input", "world.links.new", "light_add",
   "render.set", "render.render"}
\* ------------------------------------------------------------------------
\* Python statements
\* ------------------------------------------------------------------------

\* entering a function; a builder starts with fresh local variables
Call ==
  /\ At("call")
  /\ IF ins.var \in Builders
       THEN /\ entry' = [fn |-> ins.var,
                         objs |-> {o.id : o \in objects},
                         mats |-> {m.id : m \in materials}]
            /\ locals' = NoLocals
       ELSE UNCHANGED <<entry, locals>>
  /\ Advance
  /\ UNCHANGED <<objects, materials, world, scene_camera, active, mode,
                 select_mode, render, files, writes, nextId>>

Return ==
  /\ At("return")
  /\ Advance
  /\ UNCHANGED <<objects, materials, world, scene_camera, active, mode,
                 select_mode, render, files, writes, locals, nextId, entry>>

PrintStmt ==
  /\ At("print")
  /\ Advance
  /\ UNCHANGED <<objects, materials, world, scene_camera, active, mode,
                 select_mode, render, files, writes, locals, nextId, entry>>

\* v = bpy.context.active_object
BindActive ==
  /\ At("bind_active")
  /\ locals' = (ins.var :> active) @@ locals
  /\ Advance
  /\ UNCHANGED <<objects, materials, world, scene_camera, active, mode,
                 select_mode, render, files, writes, nextId, entry>>

\* ------------------------------------------------------------------------
\* Host calls
\* ------------------------------------------------------------------------

\* bpy.ops.object.select_all(action='SELECT'); polls for object mode
SelectAll ==
  /\ At("object.select_all")
  /\ IF mode = "OBJECT"
       THEN /\ objects' = {[o EXCEPT !.select = TRUE] : o \in objects}
            /\ Advance
            /\ UNCHANGED <<materials, world, scene_camera, active, mode,
                           select_mode, render, files, writes, locals,
                           nextId, entry>>
       ELSE Raise("raised")

OrphanMaterials_Purged(mats, kept) ==
  {m \in mats : \E o \in kept : \E i \in DOMAIN o.slots : o.slots[i] = m.id}

\* the materials left in bpy.data.materials when objects are deleted and
\* `kept` are the objects that stay: deleting an object frees no material
OrphanMaterials(mats, kept) == mats

\* bpy.ops.object.delete(use_global=False): frees the selected objects; the
\* scene camera and the active object are cleared when they are freed
ObjectDelete ==
  /\ At("object.delete")
  /\ IF mode = "OBJECT"
       THEN LET kept == {o \in objects : ~o.select}
                ids  == {o.id : o \in kept}
            IN  /\ objects' = kept
                /\ materials' = OrphanMaterials(materials, kept)
                /\ active' = IF active \in ids THEN active ELSE 0
                /\ scene_camera' =
                     IF scene_camera \in ids THEN scene_camera ELSE 0
                /\ Advance
                /\ UNCHANGED <<world, mode, select_mode, render, files,
                               writes, locals, nextId, entry>>
       ELSE Raise("raised")

\* mat = bpy.data.materials.new(name=name)
MaterialsNew ==
  /\ At("materials.new")
  /\ materials' = materials \cup
       {NewMaterial(nextId,
                    UniqueName(ins.arg, {m.name : m \in materials}))}
  /\ locals' = (ins.var :> nextId) @@ locals
  /\ nextId' = nextId + 1
  /\ Advance
  /\ UNCHANGED <<objects, world, scene_camera, active, mode, select_mode,
                 render, files, writes, entry>>

\* mat.use_nodes = True: the host builds the default node tree
MatUseNodes ==
  /\ At("mat.use_nodes")
  /\ IF MatAlive(ins.var)
       THEN /\ SetMaterial([Mat(locals[ins.var]) EXCEPT
                              !.use_nodes = TRUE, !.nodes = DefaultNodes,
                              !.links = {<<"BSDF", "Surface">>}])
            /\ Advance
            /\ UNCHANGED <<objects, world, scene_camera, active, mode,
                           select_mode, render, files, writes, locals,
                           nextId, entry>>
       ELSE Raise("raised")

\* mat.node_tree.nodes.clear()
MatNodesClear ==
  /\ At("mat.nodes.clear")
  /\ IF MatAlive(ins.var)
       THEN /\ SetMaterial([Mat(locals[ins.var]) EXCEPT
                              !.nodes = {}, !.links = {}])
            /\ Advance
            /\ UNCHANGED <<objects, world, scene_camera, active, mode,
                           select_mode, render, files, writes, locals,
                           nextId, entry>>
       ELSE Raise("raised")

\* mat.node_tree.nodes.new(type)
MatNodesNew ==
  /\ At("mat.nodes.new")
  /\ IF MatAlive(ins.var)
       THEN /\ SetMaterial([Mat(locals[ins.var]) EXCEPT
                              !.nodes = @ \cup {ins.arg}])
            /\ Advance
            /\ UNCHANGED <<objects, world, scene_camera, active, mode,
                           select_mode, render, files, writes, locals,
                           nextId, entry>>
       ELSE Raise("raised")

MatWithInput(m, key, v) ==
  CASE key = "Base Color" -> [m EXCEPT !.base_color = v]
    [] key = "Metallic" -> [m EXCEPT !.metallic = v]
    [] key = "Roughness" -> [m EXCEPT !.roughness = v]
    [] OTHER -> [m EXCEPT !.emission = v]

\* bsdf.inputs[key].default_value = v
MatInput ==
  /\ At("mat.input")
  /\ IF MatAlive(ins.var)
          /\ "ShaderNodeBsdfPrincipled" \in Mat(locals[ins.var]).nodes
       THEN /\ SetMaterial(MatWithInput(Mat(locals[ins.var]),
                                        ins.arg[1], ins.arg[2]))
            /\ Advance
            /\ UNCHANGED <<objects, world, scene_camera, active, mode,
                           select_mode, render, files, writes, locals,
                           nextId, entry>>
       ELSE Raise("raised")

\* mat.node_tree.links.new(bsdf.outputs['BSDF'], output.inputs['Surface'])
MatLinksNew ==
  /\ At("mat.links.new")
  /\ IF MatAlive(ins.var) /\ DefaultNodes \subseteq Mat(locals[ins.var]).nodes
       THEN /\ SetMaterial([Mat(locals[ins.var]) EXCEPT
                              !.links = @ \cup {ins.arg}])
            /\ Advance
            /\ UNCHANGED <<objects, world, scene_camera, active, mode,
                           select_mode, render, files, writes, locals,
                           nextId, entry>>
       ELSE Raise("raised")

\* the new object is the only selected one and the active one
AddObject(o) ==
  /\ objects' = {[x EXCEPT !.select = FALSE] : x \in objects} \cup {o}
  /\ active' = o.id
  /\ nextId' = nextId + 1

\* bpy.ops.mesh.primitive_*_add(...): in object mode a new mesh object; in
\* edit mode the geometry is added to the mesh being edited
PrimitiveAdd ==
  /\ At("primitive_add")
  /\ IF mode = "OBJECT"
       THEN /\ AddObject(NewObject(nextId,
                   UniqueName(DefaultName(ins.arg[1]),
                              {o.name : o \in objects}),
                   "MESH", ins.arg[1], <<ins.arg[2]>>, ins.arg[3], 0))
            /\ Advance
            /\ UNCHANGED <<materials, world, scene_camera, mode, select_mode,
                           render, files, writes, locals, entry>>
       ELSE /\ SetObject([Obj(active) EXCEPT
                            !.geom = Append(@, ins.arg[2])])
            /\ Advance
            /\ UNCHANGED <<materials, world, scene_camera, active, mode,
                           select_mode, render, files, writes, locals,
                           nextId, entry>>

ObjWithAttr(o, attr, v) ==
  CASE attr = "name" ->
         [o EXCEPT !.name = UniqueName(v, {x.name : x \in objects \ {o}})]
    [] attr = "scale" -> [o EXCEPT !.scale = v]
    [] attr = "location" -> [o EXCEPT !.location = v]
    [] attr = "rotation_euler" -> [o EXCEPT !.rotation = v]
    [] attr = "rotation_euler[0]" -> [o EXCEPT !.rotation[1] = v]
    [] attr = "energy" -> [o EXCEPT !.energy = v]
    [] OTHER -> [o EXCEPT !.color = v]

\* v.<attr> = value, for an object v
SetAttr ==
  /\ At("setattr")
  /\ IF Alive(ins.var)
       THEN /\ SetObject(ObjWithAttr(Obj(locals[ins.var]),
                                     ins.arg[1], ins.arg[2]))
            /\ Advance
            /\ UNCHANGED <<materials, world, scene_camera, active, mode,
                           select_mode, render, files, writes, locals,
                           nextId, entry>>
       ELSE Raise("raised")

\* bpy.ops.object.shade_smooth(): the selected meshes; polls for object mode
ShadeSmooth ==
  /\ At("shade_smooth")
  /\ IF mode = "OBJECT"
       THEN /\ objects' = {IF o.select /\ o.type = "MESH"
                             THEN [o EXCEPT !.smooth = TRUE] ELSE o :
                           o \in objects}
            /\ Advance
            /\ UNCHANGED <<materials, world, scene_camera, active, mode,
                           select_mode, render, files, writes, locals,
                           nextId, entry>>
       ELSE Raise("raised")

\* v.data.materials.append(mat)
MaterialsAppend ==
  /\ At("materials.append")
  /\ IF Alive(ins.var) /\ MatAlive(ins.arg)
       THEN /\ SetObject([Obj(locals[ins.var]) EXCEPT
                            !.slots = Append(@, locals[ins.arg])])
            /\ Advance
            /\ UNCHANGED <<materials, world, scene_camera, active, mode,
                           select_mode, render, files, writes, locals,
                           nextId, entry>>
       ELSE Raise("raised")

\* bpy.ops.object.modifier_add(type=...): on the active object
ModifierAdd ==
  /\ At("modifier_add")
  /\ IF Exists(active)
       THEN /\ \E nm \in ModifierNames(ins.arg) :
                 SetObject([Obj(active) EXCEPT
                              !.modifiers = Append(@,
                                 [name |-> nm, type |-> ins.arg,
                                  levels |-> 1])])
            /\ Advance
            /\ UNCHANGED <<materials, world, scene_camera, active, mode,
                           select_mode, render, files, writes, locals,
                           nextId, entry>>
       ELSE Raise("raised")

\* v.modifiers[key].levels = n: the lookup raises KeyError when the object
\* has no modifier of that name
ModifierLevels ==
  /\ At("modifier.levels")
  /\ IF Alive(ins.var)
          /\ \E i \in DOMAIN Obj(locals[ins.var]).modifiers :
               Obj(locals[ins.var]).modifiers[i].name = ins.arg[1]
       THEN /\ SetObject([Obj(locals[ins.var]) EXCEPT !.modifiers =
                 [i \in DOMAIN @ |->
                    IF @[i].name = ins.arg[1]
                      THEN [@[i] EXCEPT !.levels = ins.arg[2]] ELSE @[i]]])
            /\ Advance
            /\ UNCHANGED <<materials, world, scene_camera, active, mode,
                           select_mode, render, files, writes, locals,
                           nextId, entry>>
       ELSE Raise("raised")

\* bpy.context.view_layer.objects.active = v
SetActive ==
  /\ At("set_active")
  /\ IF Alive(ins.var)
       THEN /\ active' = locals[ins.var]
            /\ Advance
            /\ UNCHANGED <<objects, materials, world, scene_camera, mode,
                           select_mode, render, files, writes, locals,
                           nextId, entry>>
       ELSE Raise("raised")

\* bpy.ops.object.mode_set(mode=...): needs an active object, and a mesh to
\* enter edit mode
ModeSet ==
  /\ At("mode_set")
  /\ IF Exists(active) /\ (ins.arg = "EDIT" => Obj(active).type = "MESH")
       THEN /\ mode' = ins.arg
            /\ Advance
            /\ UNCHANGED <<objects, materials, world, scene_camera, active,
                           select_mode, render, files, writes, locals,
                           nextId, entry>>
       ELSE Raise("raised")

\* bpy.ops.mesh.select_all(action='DESELECT'): the vertex selection of the
\* mesh being edited; polls for edit mode
MeshSelectAll ==
  /\ At("mesh.select_all")
  /\ IF mode = "EDIT"
       THEN /\ SetObject([Obj(active) EXCEPT !.vsel =
                 IF ins.arg = "DESELECT" THEN "NONE" ELSE "ALL"])
            /\ Advance
            /\ UNCHANGED <<materials, world, scene_camera, active, mode,
                           select_mode, render, files, writes, locals,
                           nextId, entry>>
       ELSE Raise("raised")

\* bpy.ops.mesh.select_mode(type='VERT'); polls for edit mode
MeshSelectMode ==
  /\ At("mesh.select_mode")
  /\ IF mode = "EDIT"
       THEN /\ select_mode' = ins.arg
            /\ Advance
            /\ UNCHANGED <<objects, materials, world, scene_camera, active,
                           mode, render, files, writes, locals, nextId,
                           entry>>
       ELSE Raise("raised")

\* if 'Camera' in bpy.data.objects: bpy.data.objects.remove(...)
RemoveDefaultCamera ==
  /\ At("remove_default_camera")
  /\ LET gone == {o \in objects : o.name = Name(ins.arg)}
         ids  == {o.id : o \in gone}
     IN  /\ objects' = objects \ gone
         /\ active' = IF active \in ids THEN 0 ELSE active
         /\ scene_camera' = IF scene_camera \in ids THEN 0 ELSE scene_camera
  /\ Advance
  /\ UNCHANGED <<materials, world, mode, select_mode, render, files, writes,
                 locals, nextId, entry>>

\* bpy.ops.object.camera_add(location=...): leaves edit mode first
CameraAdd ==
  /\ At("camera_add")
  /\ AddObject(NewObject(nextId,
        UniqueName(DefaultName("CAMERA"), {o.name : o \in objects}),
        "CAMERA", "CAMERA", << >>, ins.arg, 0))
  /\ mode' = "OBJECT"
  /\ Advance
  /\ UNCHANGED <<materials, world, scene_camera, select_mode, render, files,
                 writes, locals, entry>>

\* bpy.context.scene.camera = v
SceneCamera ==
  /\ At("scene.camera")
  /\ IF Alive(ins.var) /\ Obj(locals[ins.var]).type = "CAMERA"
       THEN /\ scene_camera' = locals[ins.var]
            /\ Advance
            /\ UNCHANGED <<objects, materials, world, active, mode,
                           select_mode, render, files, writes, locals,
                           nextId, entry>>
       ELSE Raise("raised")

\* world.use_nodes = True
WorldUseNodes ==
  /\ At("world.use_nodes")
  /\ world' = IF world.use_nodes THEN world ELSE DefaultWorld
  /\ Advance
  /\ UNCHANGED <<objects, materials, scene_camera, active, mode, select_mode,
                 render, files, writes, locals, nextId, entry>>

\* world.node_tree.nodes.clear()
WorldNodesClear ==
  /\ At("world.nodes.clear")
  /\ world' = [world EXCEPT !.nodes = {}, !.links = {}, !.Color = << >>,
                            !.Strength = ""]
  /\ Advance
  /\ UNCHANGED <<objects, materials, scene_camera, active, mode, select_mode,
                 render, files, writes, locals, nextId, entry>>

\* world.node_tree.nodes.new(type); a new background node has the host's
\* default colour and strength
WorldNodesNew ==
  /\ At("world.nodes.new")
  /\ world' = IF ins.arg = "ShaderNodeBackground"
                THEN [world EXCEPT !.nodes = @ \cup {ins.arg},
                                   !.Color = <<"0.8", "0.8", "0.8", "1.0">>,
                                   !.Strength = "1.0"]
                ELSE [world EXCEPT !.nodes = @ \cup {ins.arg}]
  /\ Advance
  /\ UNCHANGED <<objects, materials, scene_camera, active, mode, select_mode,
                 render, files, writes, locals, nextId, entry>>

\* background.inputs[key].default_value = v
WorldInput ==
  /\ At("world.input")
  /\ IF "ShaderNodeBackground" \in world.nodes
       THEN /\ world' = IF ins.arg[1] = "Color"
                          THEN [world EXCEPT !.Color = ins.arg[2]]
                          ELSE [world EXCEPT !.Strength = ins.arg[2]]
            /\ Advance
            /\ UNCHANGED <<objects, materials, scene_camera, active, mode,
                           select_mode, render, files, writes, locals,
                           nextId, entry>>
       ELSE Raise("raised")

\* world.node_tree.links.new(background.outputs['Background'],
\*                           output.inputs['Surface'])
WorldLinksNew ==
  /\ At("world.links.new")
  /\ IF {"ShaderNodeBackground", "ShaderNodeOutputWorld"} \subseteq world.nodes
       THEN /\ world' = [world EXCEPT !.links = @ \cup {ins.arg}]
            /\ Advance
            /\ UNCHANGED <<objects, materials, scene_camera, active, mode,
                           select_mode, render, files, writes, locals,
                           nextId, entry>>
       ELSE Raise("raised")

\* bpy.ops.object.light_add(type=..., location=...): leaves edit mode first
LightAdd ==
  /\ At("light_add")
  /\ AddObject(NewObject(nextId,
        UniqueName(DefaultName(ins.arg[1]), {o.name : o \in objects}),
        "LIGHT", ins.arg[1], << >>, ins.arg[2], DefaultEnergy(ins.arg[1])))
  /\ mode' = "OBJECT"
  /\ Advance
  /\ UNCHANGED <<materials, world, scene_camera, select_mode, render, files,
                 writes, locals, entry>>

\* bpy.context.scene.render.<attr> = value
RenderSet ==
  /\ At("render.set")
  /\ render' =
       CASE ins.arg[1] = "resolution_x" ->
              [render EXCEPT !.resolution_x = ins.arg[2]]
         [] ins.arg[1] = "resolution_y" ->
              [render EXCEPT !.resolution_y = ins.arg[2]]
         [] ins.arg[1] = "film_transparent" ->
              [render EXCEPT !.film_transparent = ins.arg[2]]
         [] OTHER -> [render EXCEPT !.filepath = ins.arg[2]]
  /\ Advance
  /\ UNCHANGED <<objects, materials, world, scene_camera, active, mode,
                 select_mode, files, writes, locals, nextId, entry>>

\* what the image file at `path` shows: the meshes of the scene
Image(path) ==
  [path |-> path,
   meshes |-> {o.name : o \in {x \in objects : x.type = "MESH"}},
   camera |-> scene_camera,
   res |-> <<render.resolution_x, render.resolution_y>>,
   transparent |-> render.film_transparent]

\* bpy.ops.render.render(write_still=True): refuses without a scene camera;
\* writes the image to render.filepath, replacing a file of that path
Render ==
  /\ At("render.render")
  /\ IF Exists(scene_camera)
       THEN /\ files' = {f \in files : f.path # render.filepath}
                          \cup {Image(render.filepath)}
            /\ writes' = Append(writes, [name |-> ins.arg[1],
                                         size |-> ins.arg[2],
                                         path |-> render.filepath])
            /\ Advance
            /\ UNCHANGED <<objects, materials, world, scene_camera, active,
                           mode, select_mode, render, locals, nextId, entry>>
       ELSE Raise("raised")

\* any host call may fail on its own (invalid path, unsupported primitive)
HostFail ==
  /\ status = "running"
  /\ ins.op \in HostOps
  /\ Raise("fault")

\* ------------------------------------------------------------------------
\* The console
\* ------------------------------------------------------------------------

\* names and sizes tried for render_icon from the console
RenderNames == {<<"a">>, <<"a", "1">>}

RenderSizes == {16, 116}

Program(fn) ==
  CASE fn = "create_microphone_icon" -> create_microphone_icon
    [] fn = "create_conversation_bubble" -> create_conversation_bubble
    [] fn = "create_book_icon" -> create_book_icon
    [] OTHER -> create_shield_icon

\* the console takes a call when no call runs; a call that ended in an
\* exception of the script leaves the console usable
CanInvoke ==
  /\ calls < MaxCalls
  /\ status = "idle" \/ (status = "failed" /\ cause = "raised")

Start(p) ==
  /\ prog' = p
  /\ pc' = 1
  /\ status' = "running"
  /\ cause' = "none"
  /\ calls' = calls + 1
  /\ mark' = Len(writes)
  /\ locals' = NoLocals
  /\ UNCHANGED <<objects, materials, world, scene_camera, active, mode,
                 select_mode, render, files, writes, nextId, entry>>

InvokeBuilder == CanInvoke /\ \E fn \in Builders : Start(Program(fn))

InvokeAll == CanInvoke /\ Start(create_all_storyline_icons)

InvokeRender ==
  CanInvoke /\ \E n \in RenderNames, z \in RenderSizes : Start(render_icon(n, z))

Next ==
  \/ InvokeBuilder \/ InvokeAll \/ InvokeRender
  \/ Call \/ Return \/ PrintStmt \/ BindActive
  \/ SelectAll \/ ObjectDelete
  \/ MaterialsNew \/ MatUseNodes \/ MatNodesClear \/ MatNodesNew
  \/ MatInput \/ MatLinksNew
  \/ PrimitiveAdd \/ SetAttr \/ ShadeSmooth \/ MaterialsAppend
  \/ ModifierAdd \/ ModifierLevels
  \/ SetActive \/ ModeSet \/ MeshSelectAll \/ MeshSelectMode
  \/ RemoveDefaultCamera \/ CameraAdd \/ SceneCamera
  \/ WorldUseNodes \/ WorldNodesClear \/ WorldNodesNew \/ WorldInput
  \/ WorldLinksNew \/ LightAdd
  \/ RenderSet \/ Render
  \/ HostFail

Spec == Init /\ [][Next]_vars
\* ------------------------------------------------------------------------
\* Properties
\* ------------------------------------------------------------------------

Top == IF Len(prog) = 0 THEN "none" ELSE prog[1].var

\* the statement just executed is the return of fn
JustReturned(fn) ==
  /\ pc > 1
  /\ pc - 1 <= Len(prog)
  /\ prog[pc - 1].op = "return"
  /\ prog[pc - 1].var = fn

BuilderReturned == \E fn \in Builders : JustReturned(fn)

Ids(S) == {x.id : x \in S}

OfType(t) == {o \in objects : o.type = t}

\* how many statements of builder fn have one of the ops
CountOps(fn, ops) ==
  Cardinality({i \in DOMAIN Program(fn) : Program(fn)[i].op \in ops})

\* the renders of the running console call
RunWrites == SubSeq(writes, mark + 1, Len(writes))

ExpectedMeshes(fn) ==
  CASE fn = "create_microphone_icon" ->
         {"Microphone_Capsule", "Microphone_Grille", "Microphone_Base",
          "Microphone_Arm"}
    [] fn = "create_conversation_bubble" ->
         {"Conversation_Bubble", "Bubble_Tail", "AI_Dot_1", "AI_Dot_2",
          "AI_Dot_3"}
    [] fn = "create_book_icon" -> {"Book_Cover", "Book_Pages", "Bookmark"}
    [] OTHER -> {"Safety_Shield", "Heart_Left", "Heart_Right", "Heart_Point"}

\* C1: when a builder returns, whatever scene it was started in, no object
\* that existed at its entry is left and the scene holds exactly what the
\* run created: its meshes, one camera and two lights.
C1_SceneReset ==
  BuilderReturned =>
    /\ Ids(objects) \cap entry.objs = {}
    /\ Cardinality(OfType("MESH")) = CountOps(entry.fn, {"primitive_add"})
    /\ Cardinality(OfType("CAMERA")) = 1
    /\ Cardinality(OfType("LIGHT")) = 2
    /\ Cardinality(objects) =
         CountOps(entry.fn, {"primitive_add", "camera_add", "light_add"})

C1_Witness ==
  /\ JustReturned("create_book_icon")
  /\ calls = 2
  /\ Cardinality(entry.objs) = 7

\* C2 (as claimed): unless a host call fails on its own, a run of
\* create_all_storyline_icons ends with four renders, named microphone,
\* conversation_bubble, book, shield in that order, each file showing
\* exactly the meshes of its own icon.
C2_FourPairsInOrder ==
  (Top = "create_all_storyline_icons" /\ status # "running" /\ cause # "fault")
    => /\ [i \in DOMAIN RunWrites |-> RunWrites[i].name] =
            <<N_microphone, N_conversation_bubble, N_book, N_shield>>
       /\ \A i \in DOMAIN RunWrites : \E f \in files :
            /\ f.path = RunWrites[i].path
            /\ f.meshes =
                 {Name(x) : x \in ExpectedMeshes(
                    <<"create_microphone_icon", "create_conversation_bubble",
                      "create_book_icon", "create_shield_icon">>[i])}

\* C3 (as claimed): the materials that exist when a builder returns are the
\* ones it created, however many builders ran before it (the factory scene's
\* own material aside).
C3_MaterialsDestroyed ==
  BuilderReturned =>
    Cardinality({m \in materials : m.name.base # "Material"}) =
      CountOps(entry.fn, {"materials.new"})

\* C3 (amended): the objects of an earlier build are gone when a builder
\* returns, but every material that existed at its entry is still there, so
\* the materials are those of the entry plus the ones the builder created.
C3_MaterialsAccumulate ==
  BuilderReturned =>
    /\ Ids(objects) \cap entry.objs = {}
    /\ entry.mats \subseteq Ids(materials)
    /\ Cardinality(materials) =
         Cardinality(entry.mats) + CountOps(entry.fn, {"materials.new"})

C3_Witness ==
  /\ JustReturned("create_microphone_icon")
  /\ Cardinality(entry.mats) >= 2
  /\ \E m \in materials : m.name = [base |-> "Microphone_Body", n |-> 1]

\* C4: every render is written at the icons directory followed by
\* <name>_<size>.png and the file is there; two renders have the same path
\* only if they have the same name and size; a console call has written one
\* file per render it has executed; the renders of one run of
\* create_all_storyline_icons go to pairwise distinct paths.
C4_OutputNaming ==
  /\ \A i \in DOMAIN writes :
       /\ writes[i].path =
            ICON_DIR \o writes[i].name \o <<"_">> \o Str(writes[i].size)
              \o <<".", "p", "n", "g">>
       /\ \E f \in files : f.path = writes[i].path
  /\ \A i, j \in DOMAIN writes :
       writes[i].path = writes[j].path =>
         writes[i].name = writes[j].name /\ writes[i].size = writes[j].size
  /\ Len(RunWrites) =
       Cardinality({i \in 1..(pc - 1) :
                      i <= Len(prog) /\ prog[i].op = "render.render"})
  /\ Top = "create_all_storyline_icons" =>
       \A i, j \in DOMAIN RunWrites :
         i # j => RunWrites[i].path # RunWrites[j].path

C4_Witness ==
  /\ Len(writes) = 2
  /\ writes[1].name = <<"a">> /\ writes[1].size = 116
  /\ writes[2].name = <<"a", "1">> /\ writes[2].size = 16
  /\ Cardinality(files) = 2

\* the names of the renders among the statements before statement k
RendersBefore(k) ==
  LET idx == {i \in 1..(k - 1) : prog[i].op = "render.render"}
  IN  [j \in 1..Cardinality(idx) |->
         prog[CHOOSE i \in idx : Cardinality({x \in idx : x <= i}) = j].arg[1]]

C5_Stopped ==
  (Top = "create_all_storyline_icons" /\ cause # "none") =>
    /\ status = "failed"
    /\ [j \in DOMAIN RunWrites |-> RunWrites[j].name] = RendersBefore(pc)
    /\ \A j \in DOMAIN RunWrites : \E f \in files : f.path = RunWrites[j].path

\* C5: once a statement of create_all_storyline_icons has failed the call
\* is over: nothing changes any more except by a new console call, and the
\* files written are exactly those of the renders before the failing
\* statement, which are still there.
C5_FailureHalts ==
  /\ []C5_Stopped
  /\ [][(cause # "none" /\ calls' = calls) => UNCHANGED vars]_vars

C5_Witness ==
  /\ Top = "create_all_storyline_icons"
  /\ status = "failed"
  /\ cause = "fault"
  /\ prog[pc].op = "object.delete"
  /\ [j \in DOMAIN RunWrites |-> RunWrites[j].name] = <<N_microphone>>
  /\ Cardinality(files) = 1

\* C6: when a builder returns, the mesh objects are named exactly as the
\* builder's fixed set, with no numeric suffix and no two alike, and every
\* mesh has one material slot, holding a material created in this run.
C6_NamedObjects ==
  \A fn \in Builders :
    JustReturned(fn) =>
      /\ {o.name : o \in OfType("MESH")} = {Name(x) : x \in ExpectedMeshes(fn)}
      /\ Cardinality(OfType("MESH")) = Cardinality(ExpectedMeshes(fn))
      /\ \A o \in OfType("MESH") :
           /\ Len(o.slots) = 1
           /\ o.slots[1] \in Ids(materials) \ entry.mats

C6_Witness ==
  /\ JustReturned("create_shield_icon")
  /\ calls = 2
  /\ \E o \in objects : o.name = Name("Heart_Point")
  /\ \E m \in materials : m.name = [base |-> "Shield", n |-> 1]

IconCameraReady ==
  /\ Cardinality(OfType("CAMERA")) = 1
  /\ \A c \in OfType("CAMERA") :
       /\ c.name = Name("Icon_Camera")
       /\ c.location = <<"4", "-4", "3">>
       /\ scene_camera = c.id

\* C7: when a builder returns, and at every render_icon call of
\* create_all_storyline_icons, the scene has exactly one camera, named
\* Icon_Camera, at (4, -4, 3), and it is the scene's active camera.
C7_CameraSetup ==
  /\ BuilderReturned => IconCameraReady
  /\ (/\ Top = "create_all_storyline_icons"
      /\ status = "running"
      /\ ins.op \in {"call", "render.set", "render.render"}
      /\ ins.op = "call" => ins.var = "render_icon")
       => IconCameraReady

C7_Witness ==
  /\ Top = "create_all_storyline_icons"
  /\ calls = 2
  /\ status = "running"
  /\ ins.op = "render.render"
  /\ entry.objs # {}
  /\ \A o \in objects : o.id \notin entry.objs

\* C8: when a builder returns there are exactly two lights, a SUN of energy
\* 3 at (5, 5, 10) and an AREA of energy 1 at (-3, 2, 5), and the world's
\* background node is linked to the world output.
C8_LightingRig ==
  BuilderReturned =>
    /\ Cardinality(OfType("LIGHT")) = 2
    /\ \E k \in OfType("LIGHT") :
         k.kind = "SUN" /\ k.energy = 3 /\ k.location = <<"5", "5", "10">>
    /\ \E f \in OfType("LIGHT") :
         f.kind = "AREA" /\ f.energy = 1 /\ f.location = <<"-3", "2", "5">>
    /\ {"ShaderNodeBackground", "ShaderNodeOutputWorld"} \subseteq world.nodes
    /\ <<"Background", "Surface">> \in world.links

C8_Witness ==
  /\ JustReturned("create_shield_icon")
  /\ calls = 2
  /\ Cardinality({o \in OfType("LIGHT") : o.id \in entry.objs}) = 0
  /\ Cardinality(entry.objs) = 6
  /\ Cardinality(OfType("LIGHT")) = 2

\* the next statement belongs to a running render_icon
InRenderIcon ==
  /\ status = "running"
  /\ \E i \in 1..pc :
       /\ prog[i].op = "call"
       /\ prog[i].var = "render_icon"
       /\ \A j \in i..(pc - 1) : prog[j].op # "return"

\* C9: no statement of render_icon changes the scene graph, and when
\* render_icon(name, size) returns the resolution is size by size, the
\* background is transparent, the output path is the one of name and size,
\* and the last render written is that one.
C9_RenderFrame ==
  [][InRenderIcon =>
       /\ UNCHANGED <<objects, materials, world, scene_camera, active, mode,
                      select_mode>>
       /\ ins.op = "return" =>
            /\ render.resolution_x = ins.arg[2]
            /\ render.resolution_y = ins.arg[2]
            /\ render.film_transparent
            /\ render.filepath =
                 ICON_DIR \o ins.arg[1] \o <<"_">> \o Str(ins.arg[2])
                   \o <<".", "p", "n", "g">>
            /\ Len(writes) = mark + Cardinality(
                 {i \in 1..(pc - 1) : prog[i].op = "render.render"})
            /\ writes[Len(writes)].path = render.filepath]_vars

C9_Witness ==
  /\ JustReturned("render_icon")
  /\ Top = "render_icon"
  /\ render.resolution_x = 116
  /\ render.resolution_y = 116
  /\ Cardinality(objects) = 7
  /\ Len(writes) = 1

====
